---- MODULE Spec2Model ----
(***************************************************************************)
(* Model of finout_top_costs.py: the cost aggregation                      *)
(* (summarize_top_costs), the payload builder (build_payload), the pusher  *)
(* (push_to_api) and the run of main.                                      *)
(*                                                                         *)
(* Representation.  A Python/JSON value is a record tagged with its type:  *)
(* [type |-> "list", val |-> <<...>>], [type |-> "dict", val |-> record],  *)
(* [type |-> "str", val |-> text], [type |-> "number", val |-> n] and None.*)
(* A dict is a TLA+ record, so "k in d" is k \in DOMAIN d.                 *)
(* Costs are integers counting eighths of a dollar: every such amount and  *)
(* every sum of them is an exact binary float, so float addition is exact  *)
(* and round() sees the exact value.  amount_usd is kept in cents and      *)
(* percentage_of_total in tenths of a percent.                             *)
(***************************************************************************)
EXTENDS Integers, Sequences, FiniteSets, TLC

VARIABLES pc, args, net, response, data, top_list, total_entry, payload,
          report_url, push_result, exit

vars == <<pc, args, net, response, data, top_list, total_entry, payload,
          report_url, push_result, exit>>

\* ------------------------------------------------------------------ bounds
MaxRecords == 3
MaxRaw == 2
MaxTopN == 3
MaxList == 2

\* ------------------------------------------------------------ Python values
None == [type |-> "NoneType"]
JList(s) == [type |-> "list", val |-> s]
JDict(d) == [type |-> "dict", val |-> d]
JNum(n) == [type |-> "number", val |-> n]
\* a string, by its characters and what a JSON decoder makes of them
JStr(t) == [type |-> "str", val |-> t]
Encoded(v) == [raw |-> "json", parses |-> TRUE, doc |-> v]
Garbage == [raw |-> "{oops", parses |-> FALSE]
Plain(s) == [raw |-> s, parses |-> FALSE]

Front(s) == SubSeq(s, 1, Len(s) - 1)
Last(s) == s[Len(s)]
Min(a, b) == IF a <= b THEN a ELSE b
Max(a, b) == IF a >= b THEN a ELSE b
Abs(x) == IF x < 0 THEN 0 - x ELSE x

\* json.loads(text): the decoded value, or JSONDecodeError
json_loads(text) ==
  IF text.parses THEN [raised |-> FALSE, value |-> text.doc]
  ELSE [raised |-> TRUE]

\* bool(v) of Python
Truthy(v) ==
  CASE v.type = "NoneType" -> FALSE
    [] v.type = "list" -> Len(v.val) # 0
    [] v.type = "dict" -> DOMAIN v.val # {}
    [] v.type = "number" -> v.val # 0
    [] v.type = "str" -> v.val.raw # ""
    [] OTHER -> TRUE

\* round(x, ndigits) of a float that is exactly num/den (den > 0), in units of
\* the last kept digit: to nearest, an exact half to the even neighbour
RoundHalfEven(num, den) ==
  LET q == num \div den
      r == num - q * den
  IN  IF 2 * r < den THEN q
      ELSE IF 2 * r > den THEN q + 1
      ELSE IF q % 2 = 0 THEN q ELSE q + 1

\* round(amount, 2): eighths of a dollar to cents (amount / 8 * 100)
Round2(amount) == RoundHalfEven(amount * 25, 2)

\* a variant of RoundPct that cuts the digits off instead of rounding
RoundPctTruncating(amount, total) ==
  IF total = 0 THEN 0
  ELSE LET q == Abs(amount * 1000) \div Abs(total)
       IN  IF (amount < 0) = (total < 0) THEN q ELSE 0 - q

\* round((amount / total) * 100, 1), in tenths of a percent (total = 0 raises
\* ZeroDivisionError, see summarize_top_costs)
RoundPct(amount, total) ==
  IF total > 0 THEN RoundHalfEven(amount * 1000, total)
  ELSE IF total < 0 THEN RoundHalfEven((0 - amount) * 1000, 0 - total)
  ELSE 0

\* ------------------------------------------------- summarize_top_costs
\* a variant of Normalize that stops at the first undecodable string
RECURSIVE NormalizeStopping(_)
NormalizeStopping(items) ==
  IF Len(items) = 0 THEN <<>>
  ELSE LET item == Head(items)
           dec == IF item.type = "str" THEN json_loads(item.val)
                  ELSE [raised |-> FALSE, value |-> item]
       IN  IF dec.raised THEN <<>>
           ELSE IF dec.value.type = "dict"
           THEN <<dec.value>> \o NormalizeStopping(Tail(items))
           ELSE NormalizeStopping(Tail(items))

\* lines 65-76: string elements are decoded, undecodable ones skipped,
\* and only mappings are kept
RECURSIVE Normalize(_)
Normalize(items) ==
  IF Len(items) = 0 THEN <<>>
  ELSE LET parsed == Normalize(Front(items))
           item == Last(items)
           dec == IF item.type = "str" THEN json_loads(item.val)
                  ELSE [raised |-> FALSE, value |-> item]
       IN  IF dec.raised THEN parsed
           ELSE IF dec.value.type = "dict" THEN Append(parsed, dec.value)
           ELSE parsed

RECURSIVE SeqOfSet(_)
SeqOfSet(S) ==
  IF S = {} THEN <<>>
  ELSE LET x == CHOOSE y \in S : TRUE IN <<x>> \o SeqOfSet(S \ {x})

\* what "for item in data" yields after line 76: the parsed list, the keys
\* of a mapping (strings), or the characters of a string (strings again, here
\* one item for all of them)
LoopItems(d) ==
  IF d.type = "list" THEN Normalize(d.val)
  ELSE IF d.type = "str" THEN <<d>>
  ELSE [i \in 1..Cardinality(DOMAIN d.val) |->
          JStr(Plain(SeqOfSet(DOMAIN d.val)[i]))]

\* float(entry.get("cost", 0))
EntryCost(entry) == IF "cost" \in DOMAIN entry THEN entry.cost ELSE 0

\* sum(float(entry.get("cost", 0)) for entry in entries)
RECURSIVE SumCosts(_)
SumCosts(entries) ==
  IF Len(entries) = 0 THEN 0
  ELSE SumCosts(Front(entries)) + EntryCost(Last(entries))

\* item.get("data", [])
ItemData(item) == IF "data" \in DOMAIN item THEN item.data ELSE <<>>

\* item.get("name", "Unknown")
ItemName(item) == IF "name" \in DOMAIN item THEN item.name ELSE "Unknown"

\* a variant of AddCost that assigns instead of adding
AddCostOverwriting(cs, k, v) ==
  IF \E i \in 1..Len(cs) : cs[i].k = k
  THEN [i \in 1..Len(cs) |-> IF cs[i].k = k THEN [k |-> k, v |-> v] ELSE cs[i]]
  ELSE Append(cs, [k |-> k, v |-> v])

\* cost_summary[k] += v on a defaultdict(float): a new key goes last
AddCost(cs, k, v) ==
  IF \E i \in 1..Len(cs) : cs[i].k = k
  THEN [i \in 1..Len(cs) |->
          IF cs[i].k = k THEN [k |-> k, v |-> cs[i].v + v] ELSE cs[i]]
  ELSE Append(cs, [k |-> k, v |-> v])

\* lines 84-94: the aggregation loop; the dict as its items in insertion order
RECURSIVE cost_summary(_, _)
cost_summary(items, include_total) ==
  IF Len(items) = 0 THEN <<>>
  ELSE LET cs == cost_summary(Front(items), include_total)
           item == Last(items)
       IN  IF item.type # "dict" THEN cs
           ELSE IF "name" \in DOMAIN item.val /\ item.val.name = "Total"
           THEN IF include_total
                THEN AddCost(cs, item.val.name, SumCosts(ItemData(item.val)))
                ELSE cs
           ELSE AddCost(cs, ItemName(item.val), SumCosts(ItemData(item.val)))

\* sum(cost_summary.values())
RECURSIVE SumValues(_)
SumValues(cs) ==
  IF Len(cs) = 0 THEN 0 ELSE SumValues(Front(cs)) + Last(cs).v

\* a variant of InsertDesc that puts x in front of the elements of equal key
RECURSIVE InsertDescUnstable(_, _)
InsertDescUnstable(s, x) ==
  IF Len(s) = 0 THEN <<x>>
  ELSE IF Last(s).v > x.v THEN Append(s, x)
  ELSE Append(InsertDescUnstable(Front(s), x), Last(s))

\* one insertion of a stable descending sort: x goes behind every element
\* whose key is >= its own
RECURSIVE InsertDesc(_, _)
InsertDesc(s, x) ==
  IF Len(s) = 0 THEN <<x>>
  ELSE IF Last(s).v >= x.v THEN Append(s, x)
  ELSE Append(InsertDesc(Front(s), x), Last(s))

\* sorted(pairs, key=lambda x: x[1], reverse=True): stable
RECURSIVE SortedDesc(_)
SortedDesc(pairs) ==
  IF Len(pairs) = 0 THEN <<>>
  ELSE InsertDesc(SortedDesc(Front(pairs)), Last(pairs))

\* a variant of Slice that takes one element too many
SliceOneMore(s, n) ==
  IF n >= 0 THEN SubSeq(s, 1, Min(n + 1, Len(s)))
  ELSE SubSeq(s, 1, Max(0, Len(s) + n))

\* s[:n] of Python, n of either sign
Slice(s, n) ==
  IF n >= 0 THEN SubSeq(s, 1, Min(n, Len(s)))
  ELSE SubSeq(s, 1, Max(0, Len(s) + n))

\* a variant of NotTotal that filters nothing
KeepEveryName(p) == TRUE

\* the name filter of line 101
NotTotal(p) == p.k # "Total"

\* line 101
Top(cs, top_n) == Slice(SortedDesc(SelectSeq(cs, NotTotal)), top_n)

\* lines 103-108
TotalEntry(cs, include_total) ==
  IF include_total /\ \E i \in 1..Len(cs) : cs[i].k = "Total"
  THEN JDict([service |-> "Total",
              amount_usd |-> Round2((CHOOSE p \in {cs[i] : i \in 1..Len(cs)} :
                                        p.k = "Total").v)])
  ELSE None

\* lines 110-117
Results(top, total) ==
  [i \in 1..Len(top) |->
     [service |-> top[i].k,
      amount_usd |-> Round2(top[i].v),
      percentage_of_total |-> RoundPct(top[i].v, total)]]

\* a variant of ZeroTotal: no guard
NoZeroTotalGuard(total) == FALSE

\* line 97: the zero-total guard
ZeroTotal(total) == total = 0

Returned(top, total) == [error |-> "none", top_list |-> top, total_entry |-> total]
Raised(e) == [error |-> e, top_list |-> <<>>, total_entry |-> None]

\* summarize_top_costs(data, include_total, top_n): the pair returned, or the
\* exception raised: len(data) at line 78 raises TypeError on a number or
\* None, and amount / total at line 114 raises ZeroDivisionError on a zero
\* total.
summarize_top_costs(d, include_total, top_n) ==
  IF d.type \notin {"list", "dict", "str"} THEN Raised("TypeError")
  ELSE LET cs == cost_summary(LoopItems(d), include_total)
           total == SumValues(cs)
           top == Top(cs, top_n)
       IN  IF ZeroTotal(total) THEN Returned(<<>>, None)
           ELSE IF total = 0 /\ Len(top) > 0 THEN Raised("ZeroDivisionError")
           ELSE Returned(Results(top, total), TotalEntry(cs, include_total))

\* ------------------------------------------------------------ build_payload
\* a variant of build_payload that sets the total key whatever the entry
build_payload_with_total(top, report_date, total) ==
  [action |-> "push_top_costs",
   report_date |-> report_date,
   source |-> "Finout",
   top_costs |-> top,
   metadata |-> [currency |-> "USD",
                 extracted_by |-> "greg.ohare@finout.io",
                 report_type |-> "cli_summary"],
   total |-> total]

\* lines 121-135
build_payload(top, report_date, total) ==
  LET base == [action |-> "push_top_costs",
               report_date |-> report_date,
               source |-> "Finout",
               top_costs |-> top,
               metadata |-> [currency |-> "USD",
                             extracted_by |-> "greg.ohare@finout.io",
                             report_type |-> "cli_summary"]]
  IN  IF Truthy(total) THEN base @@ [total |-> total] ELSE base

\* -------------------------------------------------------------- push_to_api
\* a variant of push_to_api without the empty-list check
push_to_api_unconditional(p, url) ==
  [request |-> [type |-> "POST", to |-> "push", url |-> url, json |-> p],
   result |-> None]

\* lines 137-142: the request it issues (None when it issues none) and, when
\* it returns without one, the pair it returns
push_to_api(p, url) ==
  IF ~Truthy(JList(p.top_costs))
  THEN [request |-> None,
        result |-> [status |-> 0, text |-> "Skipped push due to empty results"]]
  ELSE [request |-> [type |-> "POST", to |-> "push", url |-> url, json |-> p],
        result |-> None]

\* ------------------------------------------------------- generate_filter_url
\* lines 144-152: the filter object the URL carries
generate_filter_url(account_id, top_services) ==
  [accountId |-> account_id,
   filters |-> [key |-> "parent_cloud_service", type |-> "col",
                operator |-> "oneOf", value |-> top_services]]

\* line 180
TopServiceNames(top) ==
  LET keep(e) == e.service # "Total"
      kept == SelectSeq(top, keep)
  IN  [i \in 1..Len(kept) |-> kept[i].service]

\* ------------------------------------------------------- query_finout_costs
\* datetime.strptime(date_str, "%Y-%m-%d"): days since the epoch, or fails
\* (the dates are early ones, so that the milliseconds fit 32-bit integers)
DateDays(raw) ==
  CASE raw = "1970-01-01" -> 0
    [] raw = "1970-01-15" -> 14
    [] OTHER -> -1

\* lines 18-20: milliseconds at UTC midnight, or ValueError
to_unix_millis(d) ==
  IF DateDays(d.val.raw) < 0 THEN [raised |-> TRUE, value |-> 0]
  ELSE [raised |-> FALSE, value |-> DateDays(d.val.raw) * 86400 * 1000]

\* lines 29-38: the request body
QueryPayload(a) ==
  LET p0 == [viewId |-> a.view_id]
      p1 == IF Truthy(a.group_by) THEN p0 @@ [groupBy |-> <<a.group_by>>] ELSE p0
  IN  IF a.omit_dates THEN p1
      ELSE p1 @@ [date |->
             [unixTimeMillSecondsStart |-> to_unix_millis(a.start_date).value,
              unixTimeMillSecondsEnd |-> to_unix_millis(a.end_date).value]]

\* lines 52-62: the envelope of a decoded response
Unwrap(doc) ==
  IF doc.type = "dict"
  THEN IF "results" \in DOMAIN doc.val THEN doc.val.results
       ELSE IF "data" \in DOMAIN doc.val THEN doc.val.data
       ELSE doc
  ELSE doc

\* a variant of FetchOutcome that does not look at the status code
FetchOutcomeAnyStatus(resp) ==
  LET dec == json_loads(resp.body)
  IN  IF dec.raised
      THEN [error |-> "Response was not valid JSON", data |-> None]
      ELSE [error |-> "none", data |-> Unwrap(dec.value)]

\* lines 49-62: what query_finout_costs makes of the response
FetchOutcome(resp) ==
  IF resp.status # 200 THEN [error |-> "Finout API Error", data |-> None]
  ELSE LET dec == json_loads(resp.body)
       IN  IF dec.raised
           THEN [error |-> "Response was not valid JSON", data |-> None]
           ELSE [error |-> "none", data |-> Unwrap(dec.value)]

\* ------------------------------------------------------------------ inputs
\* a credit and a charge, in eighths of a dollar
Costs == {-1, 1}
TopNs == {-1} \cup (0..MaxTopN)

SeqsUpTo(S, n) == UNION {[1..k -> S] : k \in 0..n}

\* well-formed cost records, one data entry each
WideRecords ==
  {JDict([name |-> n, data |-> <<[cost |-> c]>>]) :
     n \in {"A", "B", "Unknown", "Total"}, c \in Costs}

\* the shapes the normalization and the defaults are about
ShapeRecords ==
  { JDict([data |-> <<[cost |-> 1]>>]),
    JDict([name |-> "Unknown", data |-> <<[cost |-> 2]>>]),
    JDict([name |-> "A"]),
    JDict([name |-> "A", data |-> <<[date |-> "d1"], [date |-> "d2", cost |-> 3]>>]),
    JDict([name |-> "B", data |-> <<[cost |-> 1], [cost |-> 2]>>]),
    JDict([name |-> "Total", data |-> <<[cost |-> 3], [cost |-> 3]>>]) }

EncodedRecords ==
  { JStr(Encoded(JDict([data |-> <<[cost |-> 1]>>]))),
    JStr(Encoded(JDict([name |-> "B", data |-> <<[cost |-> 1], [cost |-> 2]>>]))),
    JStr(Encoded(JDict([name |-> "Total", data |-> <<[cost |-> 3], [cost |-> 3]>>]))) }

ShapeItems ==
  ShapeRecords \cup EncodedRecords
    \cup {JStr(Garbage), JStr(Encoded(JNum(5))), JNum(7), JList(<<>>)}

SummarizeInputs ==
  {JList(s) : s \in SeqsUpTo(WideRecords, MaxRecords)}
    \cup {JList(s) : s \in SeqsUpTo(ShapeItems, MaxRaw)}
    \cup {JDict([message |-> JStr(Plain("no results"))]), JNum(0),
          JStr(Plain("ok")), None}

Date(s) == JStr(Plain(s))
DefaultArgs ==
  [omit_dates |-> FALSE,
   start_date |-> Date("1970-01-01"),
   end_date |-> Date("1970-01-15"),
   push_url |-> JStr(Plain("https://example.test/hook")),
   group_by |-> None,
   view_id |-> "view-1",
   include_total |-> FALSE,
   top_n |-> 5]

\* ranked entries and total entries as summarize_top_costs can return them
RankedEntries ==
  [service : {"A", "B"}, amount_usd : {12, 25}, percentage_of_total : {333, 667}]
TotalEntries == {JDict([service |-> "Total", amount_usd |-> a]) : a \in {0, 75}}

\* lists the cost API may answer with
MainLists ==
  { <<>>,
    <<JDict([name |-> "A", data |-> <<[cost |-> 1]>>])>>,
    <<JDict([name |-> "A", data |-> <<[cost |-> 1]>>]),
      JDict([name |-> "B", data |-> <<[cost |-> 2]>>]),
      JDict([name |-> "Total", data |-> <<[cost |-> 3]>>])>>,
    <<JDict([name |-> "A", data |-> <<[cost |-> 1]>>]), JStr(Garbage)>> }

Bodies ==
  {Garbage, Encoded(JNum(0)), Encoded(None), Encoded(JStr(Plain("ok"))),
   Encoded(JDict([message |-> JStr(Plain("no results"))]))}
    \cup {Encoded(JList(l)) : l \in MainLists}
    \cup {Encoded(JDict([results |-> JList(l)])) : l \in MainLists}
    \cup {Encoded(JDict([data |-> JList(l)])) : l \in MainLists}

Responses == [status : {200, 500}, body : Bodies]

\* ------------------------------------------------------------- main's steps
\* line 174
SummarizeTopCosts ==
  /\ pc = "summarize"
  /\ LET r == summarize_top_costs(data, args.include_total, args.top_n)
     IN  IF r.error # "none"
         THEN /\ pc' = "exit"
              /\ exit' = r.error
              /\ UNCHANGED <<top_list, total_entry>>
         ELSE /\ pc' = "build"
              /\ top_list' = r.top_list
              /\ total_entry' = r.total_entry
              /\ UNCHANGED exit
  /\ UNCHANGED <<args, net, response, data, payload, report_url, push_result>>

\* lines 165-168: argument validation (parser.error exits)
ParseArgs ==
  /\ pc = "start"
  /\ IF ~args.omit_dates /\ (~Truthy(args.start_date) \/ ~Truthy(args.end_date))
     THEN pc' = "exit" /\ exit' = "usage error"
     ELSE pc' = "query" /\ UNCHANGED exit
  /\ UNCHANGED <<args, net, response, data, top_list, total_entry, payload,
                 report_url, push_result>>

\* lines 23-47: the request is built (a malformed date raises) and sent
QuerySend ==
  /\ pc = "query"
  /\ IF ~args.omit_dates /\ (to_unix_millis(args.start_date).raised
                              \/ to_unix_millis(args.end_date).raised)
     THEN /\ pc' = "exit"
          /\ exit' = "ValueError"
          /\ UNCHANGED net
     ELSE /\ pc' = "await_fetch"
          /\ net' = Append(net, [type |-> "POST", to |-> "finout",
                                 url |-> "https://app.finout.io/v1/cost/query-by-view",
                                 json |-> QueryPayload(args)])
          /\ UNCHANGED exit
  /\ UNCHANGED <<args, response, data, top_list, total_entry, payload,
                 report_url, push_result>>

\* lines 49-62: the response arrives
QueryReceive ==
  /\ pc = "await_fetch"
  /\ \E resp \in Responses :
       /\ response' = resp
       /\ LET o == FetchOutcome(resp)
          IN  IF o.error # "none"
              THEN pc' = "exit" /\ exit' = o.error /\ UNCHANGED data
              ELSE pc' = "summarize" /\ data' = o.data /\ UNCHANGED exit
  /\ UNCHANGED <<args, net, top_list, total_entry, payload, report_url,
                 push_result>>

\* line 175
BuildPayload ==
  /\ pc = "build"
  /\ payload' = JDict(build_payload(top_list, args.end_date, total_entry))
  /\ pc' = "url"
  /\ UNCHANGED <<args, net, response, data, top_list, total_entry, report_url,
                 push_result, exit>>

\* lines 180-183
ReportUrl ==
  /\ pc = "url"
  /\ report_url' = JDict(generate_filter_url("e6ad4c08-9ecd-4592-be61-7a13ad456259",
                                             TopServiceNames(top_list)))
  /\ pc' = "push"
  /\ UNCHANGED <<args, net, response, data, top_list, total_entry, payload,
                 push_result, exit>>

\* lines 185-186, up to the request push_to_api sends
MainPush ==
  /\ pc = "push"
  /\ IF Truthy(args.push_url)
     THEN LET r == push_to_api(payload.val, args.push_url)
          IN  IF r.request.type = "NoneType"
              THEN /\ push_result' = JDict(r.result)
                   /\ pc' = "done"
                   /\ UNCHANGED net
              ELSE /\ net' = Append(net, r.request)
                   /\ pc' = "await_push"
                   /\ UNCHANGED push_result
     ELSE pc' = "done" /\ UNCHANGED <<net, push_result>>
  /\ UNCHANGED <<args, response, data, top_list, total_entry, payload,
                 report_url, exit>>

\* line 142: whatever the push endpoint answers is returned as it is
PushReceive ==
  /\ pc = "await_push"
  /\ \E st \in {200, 500} :
       push_result' = JDict([status |-> st, text |-> "body"])
  /\ pc' = "done"
  /\ UNCHANGED <<args, net, response, data, top_list, total_entry, payload,
                 report_url, exit>>

\* ------------------------------------------------------------------- main
Init ==
  /\ pc = "start"
  /\ \E od \in BOOLEAN, sd \in {None, Date(""), Date("1970-01-01"), Date("01/01/1970")},
        ed \in {None, Date("1970-01-15")}, pu \in {None, DefaultArgs.push_url},
        it \in BOOLEAN, n \in {-1, 0, MaxTopN} :
       args = [DefaultArgs EXCEPT !.omit_dates = od, !.start_date = sd,
                                  !.end_date = ed, !.push_url = pu,
                                  !.include_total = it, !.top_n = n]
  /\ net = <<>>
  /\ response = None
  /\ data = None
  /\ top_list = <<>>
  /\ total_entry = None
  /\ payload = None
  /\ report_url = None
  /\ push_result = None
  /\ exit = "running"

Next ==
  \/ ParseArgs
  \/ QuerySend
  \/ QueryReceive
  \/ SummarizeTopCosts
  \/ BuildPayload
  \/ ReportUrl
  \/ MainPush
  \/ PushReceive

Spec == Init /\ [][Next]_vars

\* ----------------------------------- build_payload and push_to_api on their own
InitBuild ==
  /\ pc = "build"
  /\ \E ed \in {None, Date("1970-01-15")}, pu \in {None, DefaultArgs.push_url} :
       args = [DefaultArgs EXCEPT !.end_date = ed, !.push_url = pu]
  /\ top_list \in SeqsUpTo(RankedEntries, MaxList)
  /\ total_entry \in {None} \cup TotalEntries
  /\ net = <<>>
  /\ response = None
  /\ data = None
  /\ payload = None
  /\ report_url = None
  /\ push_result = None
  /\ exit = "running"

NextBuild ==
  \/ BuildPayload
  \/ ReportUrl
  \/ MainPush
  \/ PushReceive

SpecBuild == InitBuild /\ [][NextBuild]_vars

\* ------------------------------------------- summarize_top_costs on its own
InitSummarize ==
  /\ pc = "summarize"
  /\ \E it \in BOOLEAN, n \in TopNs :
       args = [DefaultArgs EXCEPT !.include_total = it, !.top_n = n]
  /\ data \in SummarizeInputs
  /\ net = <<>>
  /\ response = None
  /\ top_list = <<>>
  /\ total_entry = None
  /\ payload = None
  /\ report_url = None
  /\ push_result = None
  /\ exit = "running"

NextSummarize == SummarizeTopCosts

SpecSummarize == InitSummarize /\ [][NextSummarize]_vars

\* ===================================================================
\* What the claims speak of, read off the input independently of the
\* operators above
\* ===================================================================
RECURSIVE SumOver(_, _)
SumOver(S, f) ==
  IF S = {} THEN 0
  ELSE LET x == CHOOSE y \in S : TRUE IN f[x] + SumOver(S \ {x}, f)

\* an element after decoding: a parsable string stands for its document
Decoded(item) ==
  IF item.type = "str" /\ item.val.parses THEN item.val.doc ELSE item
IsMapping(item) == Decoded(item).type = "dict"

\* the list with unparsable strings and non-mappings removed and parsable
\* strings replaced by their mappings
Cleaned(items) ==
  LET kept == SelectSeq(items, IsMapping)
  IN  [i \in 1..Len(kept) |-> Decoded(kept[i])]

\* the records of the input
In == IF data.type = "list" THEN Cleaned(data.val) ELSE <<>>

NameOf(r) == IF "name" \in DOMAIN r.val THEN r.val.name ELSE "Unknown"
CostOf(r) ==
  LET es == IF "data" \in DOMAIN r.val THEN r.val.data ELSE <<>>
  IN  SumOver(1..Len(es),
              [i \in 1..Len(es) |->
                 IF "cost" \in DOMAIN es[i] THEN es[i].cost ELSE 0])
CostsOfIn == [i \in 1..Len(In) |-> CostOf(In[i])]

\* the sum over all records carrying the name
NameTotal(n) == SumOver({i \in 1..Len(In) : NameOf(In[i]) = n}, CostsOfIn)
HasTotal == \E i \in 1..Len(In) : NameOf(In[i]) = "Total"
Services == {NameOf(In[i]) : i \in 1..Len(In)} \ {"Total"}
FirstIndex(n) ==
  CHOOSE i \in 1..Len(In) :
    NameOf(In[i]) = n /\ \A j \in 1..(i - 1) : NameOf(In[j]) # n

\* the sum of all aggregated costs: every non-Total record, and the Total
\* records when include_total
Basis ==
  SumOver({i \in 1..Len(In) : args.include_total \/ NameOf(In[i]) # "Total"},
          CostsOfIn)

Summarized == pc = "build"
RankedNames == {top_list[i].service : i \in 1..Len(top_list)}
RankedSum == SumOver(1..Len(top_list),
                     [i \in 1..Len(top_list) |-> NameTotal(top_list[i].service)])
PctSum == SumOver(1..Len(top_list),
                  [i \in 1..Len(top_list) |-> top_list[i].percentage_of_total])

\* p tenths of a percent is amount / basis * 100 rounded to one decimal
NearestTenth(p, amount, basis) ==
  2 * Abs(p * basis - 1000 * amount) <= Abs(basis)

\* C2: the ranked list is no longer than top_n and no longer than the number
\* of distinct non-Total service names in the records
C2_LengthBound ==
  Summarized =>
    /\ Len(top_list) <= args.top_n
    /\ Len(top_list) <= Cardinality(Services)

\* C2, amended: the ranked list is no longer than the number of distinct
\* non-Total names; it is no longer than top_n when top_n >= 0; a negative
\* top_n drops the last -top_n names of the ranking instead (unless the
\* zero-total guard returned the empty list)
C2_LengthBoundNonNegative ==
  Summarized =>
    /\ Len(top_list) <= Cardinality(Services)
    /\ (args.top_n >= 0) => Len(top_list) <= args.top_n
    /\ (args.top_n < 0 /\ Basis # 0) =>
         Len(top_list) = Max(0, Cardinality(Services) + args.top_n)

C2_Witness ==
  /\ Summarized
  /\ args.top_n = 2
  /\ Cardinality(Services) = 3
  /\ Len(top_list) = 2

\* C3: when the sum of all aggregated costs is zero the result is ([], None),
\* and no percentage is computed on a zero basis (no ZeroDivisionError)
C3_ZeroTotalGuard ==
  /\ exit # "ZeroDivisionError"
  /\ (pc # "summarize" /\ data.type \in {"list", "dict", "str"} /\ Basis = 0) =>
       /\ Summarized
       /\ Len(top_list) = 0
       /\ total_entry = None
  /\ (Summarized /\ Len(top_list) > 0) => Basis # 0

C3_Witness ==
  /\ Summarized
  /\ Basis = 0
  /\ \E i \in 1..Len(In) : CostOf(In[i]) # 0
  /\ args.top_n > 0
  /\ Len(top_list) = 0

\* C4: "Total" never appears in the ranked list; records named "Total" count
\* in the aggregation (the percentage basis, the zero-total guard) only when
\* include_total; the total entry is non-null only when include_total and a
\* record named "Total" was aggregated
C4_TotalHandling ==
  Summarized =>
    /\ \A i \in 1..Len(top_list) : top_list[i].service # "Total"
    /\ \A i \in 1..Len(top_list) :
         NearestTenth(top_list[i].percentage_of_total,
                      NameTotal(top_list[i].service), Basis)
    /\ (Basis = 0) => (Len(top_list) = 0 /\ total_entry = None)
    /\ (Basis # 0 /\ args.top_n >= Cardinality(Services)) =>
         RankedNames = Services
    /\ (total_entry # None) => (args.include_total /\ HasTotal)

C4_Witness ==
  /\ Summarized
  /\ args.include_total
  /\ HasTotal
  /\ NameTotal("Total") # 0
  /\ total_entry # None
  /\ Len(top_list) > 0

\* C5: the amount ranked for a name is the sum, over all records carrying the
\* name (a missing name counting as "Unknown"), of the costs of the record's
\* entries (a missing cost counting as 0); each name is ranked once
C5_Aggregation ==
  Summarized =>
    /\ \A i \in 1..Len(top_list) :
         top_list[i].amount_usd = Round2(NameTotal(top_list[i].service))
    /\ \A i, j \in 1..Len(top_list) :
         top_list[i].service = top_list[j].service => i = j

C5_Witness ==
  /\ Summarized
  /\ \E i, j \in 1..Len(In) :
       /\ "name" \notin DOMAIN In[i].val
       /\ "name" \in DOMAIN In[j].val
       /\ In[j].val.name = "Unknown"
       /\ CostOf(In[i]) # 0
       /\ CostOf(In[j]) # 0
  /\ \E k \in 1..Len(top_list) : top_list[k].service = "Unknown"

\* C6: the ranked list is in non-increasing order of summed cost, no omitted
\* name has a strictly larger sum than an included one, and names of equal
\* sum appear in the order of their first occurrence in the records
C6_Ranking ==
  Summarized =>
    /\ \A i, j \in 1..Len(top_list) :
         i < j =>
           /\ NameTotal(top_list[i].service) >= NameTotal(top_list[j].service)
           /\ top_list[i].amount_usd >= top_list[j].amount_usd
           /\ NameTotal(top_list[i].service) = NameTotal(top_list[j].service)
                => FirstIndex(top_list[i].service) < FirstIndex(top_list[j].service)
    /\ \A n \in Services \ RankedNames :
         \A i \in 1..Len(top_list) :
           NameTotal(n) <= NameTotal(top_list[i].service)

C6_Witness ==
  /\ Summarized
  /\ Len(top_list) = 2
  /\ Cardinality(Services) = 3
  /\ NameTotal(top_list[1].service) = NameTotal(top_list[2].service)
  /\ FirstIndex(top_list[1].service) > 1

\* C8: every percentage is the entry's amount over the sum of all aggregated
\* costs, times 100, rounded to one decimal; when that basis equals the sum
\* of the ranked amounts and the list is not empty, the percentages add up to
\* 100.0 up to the rounding of each (0.05 per entry)
C8_Percentages ==
  Summarized =>
    /\ \A i \in 1..Len(top_list) :
         NearestTenth(top_list[i].percentage_of_total,
                      NameTotal(top_list[i].service), Basis)
    /\ (Len(top_list) > 0 /\ Basis = RankedSum) =>
         2 * Abs(PctSum - 1000) <= Len(top_list)

C8_Witness ==
  /\ Summarized
  /\ Len(top_list) = 3
  /\ args.top_n >= Cardinality(Services)
  /\ ~(args.include_total /\ HasTotal)
  /\ Basis = RankedSum
  /\ PctSum # 1000

\* C9: an unparsable string element is skipped and the call goes on; elements
\* that are not mappings after decoding are dropped; the result is the result
\* of summarizing the cleaned list
C9_Normalization ==
  (pc # "summarize" /\ data.type = "list") =>
    /\ Summarized
    /\ LET r == summarize_top_costs(JList(Cleaned(data.val)),
                                    args.include_total, args.top_n)
       IN  top_list = r.top_list /\ total_entry = r.total_entry

C9_Witness ==
  /\ Summarized
  /\ data.type = "list"
  /\ Len(data.val) = 2
  /\ data.val[1] = JStr(Garbage)
  /\ data.val[2].type = "str"
  /\ Len(top_list) = 1

\* -------------------------------------------------------------------
IsFetch(r) == r.to = "finout"
IsPush(r) == r.to = "push"
Built == pc \in {"url", "push", "await_push", "done"}
PushCalled == pc \in {"await_push", "done"} /\ Truthy(args.push_url)

\* C1: push_to_api on a payload whose top_costs is empty issues no request
\* and returns status 0 with its message; a POST (to the url given, of the
\* payload) is issued only when top_costs is not empty
C1_PushSkipsEmpty ==
  PushCalled =>
    LET posts == SelectSeq(net, IsPush)
    IN  /\ (Len(payload.val.top_costs) = 0) =>
             /\ Len(posts) = 0
             /\ push_result =
                  JDict([status |-> 0, text |-> "Skipped push due to empty results"])
        /\ (Len(posts) > 0) =>
             /\ Len(payload.val.top_costs) > 0
             /\ Len(posts) = 1
             /\ posts[1].url = args.push_url
             /\ posts[1].json = payload.val

C1_Witness ==
  /\ pc = "done"
  /\ Truthy(args.push_url)
  /\ Len(payload.val.top_costs) = 0
  /\ "total" \in DOMAIN payload.val
  /\ push_result.val.status = 0
  /\ net = <<>>

\* C7: the payload's top_costs is the ranked list passed in, and the payload
\* has a total key exactly when the total entry passed in is not null
C7_Payload ==
  Built =>
    /\ payload.val.top_costs = top_list
    /\ ("total" \in DOMAIN payload.val) <=> (total_entry # None)
    /\ ("total" \in DOMAIN payload.val) => payload.val.total = total_entry

C7_Witness ==
  /\ Built
  /\ total_entry # None
  /\ total_entry.val.amount_usd = 0
  /\ Len(top_list) = 2
  /\ "total" \in DOMAIN payload.val

\* C10: a run issues at most one fetch and at most one push; a push comes
\* after a fetch that answered 200 with valid JSON, and only with --push-url
\* and a non-empty ranked list; a run whose dates are missing (without
\* --omit-dates) issues no request; a run whose fetch failed stops and never
\* pushes
DatesMissing ==
  ~args.omit_dates /\ (args.start_date \in {None, Date("")} \/ args.end_date = None)
FetchFailed ==
  response # None /\ (response.status # 200 \/ ~response.body.parses)

C10_RunOrdering ==
  LET fetches == SelectSeq(net, IsFetch)
      pushes == SelectSeq(net, IsPush)
  IN  /\ Len(fetches) <= 1
      /\ Len(pushes) <= 1
      /\ (Len(pushes) = 1) =>
           /\ Len(net) = 2
           /\ IsFetch(net[1])
           /\ IsPush(net[2])
           /\ response # None
           /\ response.status = 200
           /\ response.body.parses
           /\ args.push_url # None
           /\ Len(top_list) > 0
      /\ DatesMissing => net = <<>>
      /\ (DatesMissing /\ pc # "start") => pc = "exit"
      /\ FetchFailed => (pc = "exit" /\ Len(pushes) = 0)

C10_Witness ==
  /\ pc = "done"
  /\ Len(net) = 2
  /\ IsPush(net[2])
  /\ push_result # None
====
